---- MODULE Spec2Model ----
(***************************************************************************)
(* Model of src/index.ts: the value normalizer (processValue), the         *)
(* placeholder reconciler (parseQueryStringValues), the statement executor *)
(* (query) and the generic row engine (set / get / edit / del) running     *)
(* against a connection pool and one table.                                *)
(*                                                                         *)
(* SpecQuery : one query() / parseQueryStringValues() call after another,  *)
(*             on arbitrary query strings and values payloads.             *)
(* Spec      : one set / edit / del call on a table, from its start to the *)
(*             settlement of its last statement, with another caller       *)
(*             mutating the table between the read and the write phase.    *)
(***************************************************************************)
EXTENDS Integers, Sequences, FiniteSets, TLC

VARIABLES
    \* ---- statement executor (SpecQuery) ----
    qString,     \* query(): argument `string` (sequence of lexemes)
    qValues,     \* query(): argument `values`
    qMode,       \* which entry point the caller uses for this call
    qpc,         \* position of the call
    qResult,     \* what parseQueryStringValues returned or threw
    qCalls,      \* number of calls made so far
    qSent0,      \* value of `sent` when the current call was made
    \* ---- shared by both specifications ----
    checkedOut,  \* pool connections acquired by query() and not yet released
    releases,    \* number of release() calls made by query()
    sent,        \* number of statements handed to conn.execute
    \* ---- generic row engine (Spec) ----
    schema,      \* field flags of the table's columns
    table,       \* rows stored in the table
    call,        \* the set/edit/del call in progress
    tasks,       \* the per-row query() invocations of that call
    outcome,     \* settlement of the call's Promise.all
    nOther,      \* number of mutations made by the other caller
    ghost        \* history of the call, used only to state properties

qvars == <<qString, qValues, qMode, qpc, qResult, qCalls, qSent0>>
evars == <<schema, table, call, tasks, outcome, nOther, ghost>>
pvars == <<checkedOut, releases, sent>>
vars == <<qString, qValues, qMode, qpc, qResult, qCalls, qSent0,
          checkedOut, releases, sent,
          schema, table, call, tasks, outcome, nOther, ghost>>

-----------------------------------------------------------------------------
(* Bounds *)

MaxTokens == 3     \* lexemes in a query string of SpecQuery
MaxValues == 3     \* elements in a values sequence of SpecQuery
MaxCalls == 2      \* query calls per behaviour of SpecQuery
MaxRows == 2       \* rows passed to one set call
MaxOther == 1      \* mutations by the other caller per behaviour

-----------------------------------------------------------------------------
(* JavaScript values *)

Undefined == [t |-> "undefined", v |-> 0]
Null == [t |-> "null", v |-> 0]
Num(n) == [t |-> "number", v |-> n]
Str(s) == [t |-> "string", v |-> s]
Bool(b) == [t |-> "boolean", v |-> b]
\* an array: v is the sequence of its elements
Arr(s) == [t |-> "array", v |-> s]
\* a plain object: v is the sequence of its entries in insertion order
Obj(es) == [t |-> "object", v |-> es]
Entry(key, x) == [k |-> key, x |-> x]
\* an object that is neither an array nor a plain object (a Date)
Other(text, iso) == [t |-> "other", v |-> [text |-> text, iso |-> iso]]

typeof(value) ==
    CASE value.t \in {"number", "string", "boolean", "undefined"} -> value.t
      [] OTHER -> "object"

IsArray(value) == value.t = "array"
isPlainObject(value) == value.t = "object"

ObjectKeys(o) == [i \in 1..Len(o.v) |-> o.v[i].k]
SeqToSet(s) == {s[i] : i \in 1..Len(s)}
HasKey(o, key) == \E i \in 1..Len(o.v) : o.v[i].k = key
\* o[key]; undefined when the key is absent
Get(o, key) ==
    IF HasKey(o, key)
    THEN (CHOOSE e \in SeqToSet(o.v) : e.k = key).x
    ELSE Undefined
\* a[i] for the 0-based index i; undefined past the end
At(a, i) == IF i + 1 \in 1..Len(a.v) THEN a.v[i + 1] ELSE Undefined

RECURSIVE Join(_)
Join(strs) ==
    IF Len(strs) = 0 THEN ""
    ELSE IF Len(strs) = 1 THEN strs[1]
    ELSE strs[1] \o "," \o Join(Tail(strs))

RECURSIVE String(_)
String(value) ==
    CASE value.t = "null" -> "null"
      [] value.t = "undefined" -> "undefined"
      [] value.t = "number" -> ToString(value.v)
      [] value.t = "boolean" -> IF value.v THEN "true" ELSE "false"
      [] value.t = "string" -> value.v
      [] value.t = "other" -> value.v.text
      [] value.t = "array" ->
            Join([i \in 1..Len(value.v) |->
                    IF value.v[i].t \in {"null", "undefined"} THEN ""
                    ELSE String(value.v[i])])
      [] value.t = "object" -> "[object Object]"

RECURSIVE JSONstringify(_)
JSONstringify(value) ==
    CASE value.t = "null" -> "null"
      [] value.t = "number" -> ToString(value.v)
      [] value.t = "boolean" -> IF value.v THEN "true" ELSE "false"
      [] value.t = "string" -> "\"" \o value.v \o "\""
      [] value.t = "other" -> "\"" \o value.v.iso \o "\""
      [] value.t = "array" ->
            "[" \o Join([i \in 1..Len(value.v) |->
                          IF value.v[i].t = "undefined" THEN "null"
                          ELSE JSONstringify(value.v[i])]) \o "]"
      [] value.t = "object" ->
            LET kept == SelectSeq(value.v, LAMBDA e : e.x.t # "undefined")
            IN "{" \o Join([i \in 1..Len(kept) |->
                             "\"" \o kept[i].k \o "\":" \o JSONstringify(kept[i].x)])
                   \o "}"

-----------------------------------------------------------------------------
(* Value normalizer *)

bypassableTypes == {"bigint", "boolean", "number", "string"}

\* lodash mapValues: an object with the same keys (the indexes, for an array)
mapValuesKeys(value) ==
    IF IsArray(value) THEN [i \in 1..Len(value.v) |-> ToString(i - 1)]
    ELSE ObjectKeys(value)

RECURSIVE processValue(_, _)
processValue(value, json) ==
    IF value.t = "undefined" THEN Null
    ELSE IF typeof(value) \in bypassableTypes THEN value
    ELSE IF IsArray(value) \/ isPlainObject(value) THEN
        IF json = TRUE THEN Str(JSONstringify(value))
        ELSE \* mapValues calls processValue(v, key, object): options is the key
             Obj([i \in 1..Len(value.v) |->
                    Entry(mapValuesKeys(value)[i],
                          processValue(IF IsArray(value) THEN value.v[i] ELSE value.v[i].x,
                                       FALSE))])
    ELSE Str(String(value))

-----------------------------------------------------------------------------
(* Query strings: sequences of lexemes *)

Text(s) == [k |-> "text", s |-> s]
Positional == [k |-> "positional", s |-> "?"]
\* the lexeme ':name'
Named(name) == [k |-> "named", s |-> name]

\* queryString.match(/:[a-z]+/ig) || []
namedPlaceholdersOf(queryString) == SelectSeq(queryString, LAMBDA l : l.k = "named")
\* identifyQuery(queryString, { dialect: 'mysql' })[0].parameters
identifyQuery(queryString) == SelectSeq(queryString, LAMBDA l : l.k = "positional")

-----------------------------------------------------------------------------
(* Placeholder reconciler *)

Returned(value) == [threw |-> FALSE, value |-> value]
Threw(error) == [threw |-> TRUE, error |-> error]

\* Object.fromEntries: a repeated key keeps its first position, its last value
RECURSIVE fromEntries(_)
fromEntries(es) ==
    IF Len(es) = 0 THEN <<>>
    ELSE LET init == fromEntries(SubSeq(es, 1, Len(es) - 1))
             last == es[Len(es)]
         IN IF \E i \in 1..Len(init) : init[i].k = last.k
            THEN [i \in 1..Len(init) |-> IF init[i].k = last.k THEN last ELSE init[i]]
            ELSE Append(init, last)

\* parseQueryStringValues with force mode on whatever the options say
parseQueryStringValues_forceByDefault(queryString, values, force) ==
    IF values.t \in {"null", "undefined"} THEN Returned(Null)
    ELSE
    LET bruteforce == TRUE
        namedPlaceholders == namedPlaceholdersOf(queryString)
        placeholders == identifyQuery(queryString)
        cause == [query_string |-> queryString,
                  placeholders |-> placeholders,
                  named_placeholders |-> namedPlaceholders,
                  values |-> values]
    IN
    IF Len(placeholders) = 1 THEN
        IF IsArray(values) THEN Returned(Arr(<<processValue(At(values, 0), TRUE)>>))
        ELSE IF typeof(values) \notin bypassableTypes
             THEN Returned(processValue(values, TRUE))
        ELSE Returned(Arr(<<values>>))
    ELSE IF Len(placeholders) > 0 /\ IsArray(values) THEN
        Returned(Arr([i \in 1..Len(values.v) |-> processValue(values.v[i], TRUE)]))
    ELSE IF Len(namedPlaceholders) > 0 /\ isPlainObject(values) THEN
        LET missing == SelectSeq(namedPlaceholders, LAMBDA p : ~HasKey(values, p.s))
        IN IF Len(missing) > 0 /\ ~bruteforce
           THEN Threw([message |-> "Parameter '" \o missing[1].s
                                     \o "' not found on values object.",
                       cause |-> cause])
           ELSE Returned(Obj(fromEntries(
                    [i \in 1..Len(namedPlaceholders) |->
                        LET key == namedPlaceholders[i].s
                        IN IF ~HasKey(values, key) THEN Entry(key, Null)
                           ELSE Entry(key, processValue(Get(values, key), TRUE))])))
    ELSE Returned(Null)

parseQueryStringValues(queryString, values, force) ==
    IF values.t \in {"null", "undefined"} THEN Returned(Null)
    ELSE
    LET bruteforce == force = TRUE
        namedPlaceholders == namedPlaceholdersOf(queryString)
        placeholders == identifyQuery(queryString)
        cause == [query_string |-> queryString,
                  placeholders |-> placeholders,
                  named_placeholders |-> namedPlaceholders,
                  values |-> values]
    IN
    IF Len(placeholders) = 1 THEN
        IF IsArray(values) THEN Returned(Arr(<<processValue(At(values, 0), TRUE)>>))
        ELSE IF typeof(values) \notin bypassableTypes
             THEN Returned(processValue(values, TRUE))
        ELSE Returned(Arr(<<values>>))
    ELSE IF Len(placeholders) > 0 /\ IsArray(values) THEN
        Returned(Arr([i \in 1..Len(values.v) |-> processValue(values.v[i], TRUE)]))
    ELSE IF Len(namedPlaceholders) > 0 /\ isPlainObject(values) THEN
        LET missing == SelectSeq(namedPlaceholders, LAMBDA p : ~HasKey(values, p.s))
        IN IF Len(missing) > 0 /\ ~bruteforce
           THEN Threw([message |-> "Parameter '" \o missing[1].s
                                     \o "' not found on values object.",
                       cause |-> cause])
           ELSE Returned(Obj(fromEntries(
                    [i \in 1..Len(namedPlaceholders) |->
                        LET key == namedPlaceholders[i].s
                        IN IF ~HasKey(values, key) THEN Entry(key, Null)
                           ELSE Entry(key, processValue(Get(values, key), TRUE))])))
    ELSE Returned(Null)

-----------------------------------------------------------------------------
(* Inputs of SpecQuery *)

Lexemes == {Positional, Named("a"), Named("b"), Text("SELECT")}

RECURSIVE SeqsUpTo(_, _)
SeqsUpTo(S, n) ==
    IF n = 0 THEN {<<>>}
    ELSE LET shorter == SeqsUpTo(S, n - 1)
         IN shorter \cup {Append(s, x) : s \in {t \in shorter : Len(t) = n - 1}, x \in S}

QueryStrings == SeqsUpTo(Lexemes, MaxTokens) \ {<<>>}

ADate == Other("Thu Jan 01 2026", "2026-01-01T00:00:00.000Z")
AnObject == Obj(<<Entry("lang", Str("en"))>>)
Scalars == {Num(5), Str("x"), Bool(TRUE)}
Elements == {Num(1), AnObject, Undefined}
Properties == {Undefined, Num(1), Null, Arr(<<Num(1)>>)}

\* plain objects over the keys a and b; Undefined stands for an absent key,
\* except in KeyedUndefined, whose key a is present and holds undefined
KeyedValues ==
    {Obj(SelectSeq(<<Entry("a", x), Entry("b", y)>>, LAMBDA e : e.x.t # "undefined")) :
        x \in Properties, y \in Properties}
KeyedUndefined == Obj(<<Entry("a", Undefined)>>)

ValuesDomain ==
    {Undefined, Null, ADate} \cup Scalars
    \cup {Arr(s) : s \in SeqsUpTo(Elements, MaxValues)}
    \cup KeyedValues \cup {KeyedUndefined}

Modes == {"parse", "parseForce", "query", "queryConn"}

-----------------------------------------------------------------------------
(* Statement executor *)

ExecutionError == [message |-> "execute rejected", cause |-> [code |-> "database"]]

\* lines 99-101 for the call of SpecQuery: reconcile, then hand the statement
\* to conn.execute
ParseAndExecute ==
    LET parsedValues == parseQueryStringValues(qString, qValues, FALSE)
    IN /\ qResult' = parsedValues
       /\ IF parsedValues.threw
          THEN qpc' = "threw" /\ sent' = sent
          ELSE qpc' = "executing" /\ sent' = sent + 1

\* a direct call of the exported helper parseQueryStringValues
CallParse ==
    /\ qpc = "start"
    /\ qMode \in {"parse", "parseForce"}
    /\ qResult' = parseQueryStringValues(qString, qValues, qMode = "parseForce")
    /\ qpc' = IF qResult'.threw THEN "threw" ELSE "returned"
    /\ UNCHANGED <<qString, qValues, qMode, qCalls, qSent0>>
    /\ UNCHANGED pvars
    /\ UNCHANGED evars

\* query(string, values, connection): with a connection supplied the body
\* runs to conn.execute at once, otherwise it awaits pool.getConnection()
QueryCall ==
    /\ qpc = "start"
    /\ qMode \in {"query", "queryConn"}
    /\ IF qMode = "queryConn"
       THEN ParseAndExecute
       ELSE qpc' = "acquiring" /\ UNCHANGED <<qResult, sent>>
    /\ UNCHANGED <<qString, qValues, qMode, qCalls, qSent0, checkedOut, releases>>
    /\ UNCHANGED evars

\* pool.getConnection() resolves
GetConnectionResolve ==
    /\ qpc = "acquiring"
    /\ checkedOut' = checkedOut + 1
    /\ ParseAndExecute
    /\ UNCHANGED <<qString, qValues, qMode, qCalls, qSent0, releases>>
    /\ UNCHANGED evars

\* what query() does with the connection once conn.execute has resolved
ReleaseOnSuccess(own) ==
    IF own
    THEN checkedOut' = checkedOut - 1 /\ releases' = releases + 1
    ELSE UNCHANGED <<checkedOut, releases>>

\* what query() does with the connection when conn.execute rejects:
\* the rejection leaves query() at line 101
ReleaseOnFailure(own) == UNCHANGED <<checkedOut, releases>>

\* conn.execute resolves: release an internally acquired connection, return
ExecuteResolve ==
    /\ qpc = "executing"
    /\ ReleaseOnSuccess(qMode = "query")
    /\ qpc' = "returned"
    /\ UNCHANGED <<qString, qValues, qMode, qCalls, qSent0, qResult, sent>>
    /\ UNCHANGED evars

\* conn.execute rejects (syntax, constraint, connectivity)
ExecuteReject ==
    /\ qpc = "executing"
    /\ ReleaseOnFailure(qMode = "query")
    /\ qpc' = "threw"
    /\ qResult' = Threw(ExecutionError)
    /\ UNCHANGED <<qString, qValues, qMode, qCalls, qSent0, sent>>
    /\ UNCHANGED evars

\* the caller makes another call with the same statement
NextCall ==
    /\ qpc \in {"returned", "threw"}
    /\ qCalls < MaxCalls
    /\ qMode' \in Modes
    /\ qpc' = "start"
    /\ qCalls' = qCalls + 1
    /\ qResult' = Returned(Undefined)
    /\ qSent0' = sent
    /\ UNCHANGED <<qString, qValues, checkedOut, releases, sent>>
    /\ UNCHANGED evars

EngineIdle ==
    /\ schema = <<>>
    /\ table = {}
    /\ call = [op |-> "none", pc |-> "done", tr |-> [kind |-> "", patch |-> Obj(<<>>)],
               filter |-> [col |-> "", val |-> Undefined]]
    /\ tasks = <<>>
    /\ outcome = [state |-> "none"]
    /\ nOther = 0
    /\ ghost = [readTable |-> {}, targets |-> <<>>, order |-> <<>>, raced |-> {}]

InitQuery ==
    /\ qString \in QueryStrings
    /\ qValues \in ValuesDomain
    /\ qMode \in Modes
    /\ qpc = "start"
    /\ qResult = Returned(Undefined)
    /\ qCalls = 1
    /\ qSent0 = 0
    /\ checkedOut = 0
    /\ releases = 0
    /\ sent = 0
    /\ EngineIdle

NextQuery ==
    \/ CallParse
    \/ QueryCall
    \/ GetConnectionResolve
    \/ ExecuteResolve
    \/ ExecuteReject
    \/ NextCall

SpecQuery == InitQuery /\ [][NextQuery]_vars

-----------------------------------------------------------------------------
(* The table and the database's execution of a statement *)

PRI_KEY_FLAG == 2
UNIQUE_KEY_FLAG == 4

\* flags & bit, for a single-bit mask
BitAnd(flags, bit) == ((flags \div bit) % 2) * bit

Field(name, flags) == [name |-> name, flags |-> flags]
Columns == {"id", "email", "name"}

\* column metadata of the four table definitions the engine is run on
Schemas ==
    { <<Field("id", 3), Field("email", 5), Field("name", 0)>>,     \* primary key and unique index
      <<Field("id", 3), Field("email", 1), Field("name", 0)>>,     \* primary key only
      <<Field("id", 1), Field("email", 5), Field("name", 0)>>,     \* unique index only
      <<Field("id", 1), Field("email", 1), Field("name", 0)>> }    \* no identity metadata

Row(id, email, name) == [id |-> id, email |-> email, name |-> name]

InitialTables ==
    { {Row(Num(1), Str("a"), Null), Row(Num(2), Str("b"), Str("n"))},
      {Row(Num(1), Str("a"), Str("n")), Row(Num(2), Str("b"), Str("n"))},
      {Row(Num(1), Str("a"), Str("m")), Row(Num(2), Str("b"), Null), Row(Num(3), Str("c"), Str("n"))},
      {Row(Num(2), Str("b"), Str("n"))} }

KeyColumns(fields) ==
    {fields[i].name : i \in {j \in 1..Len(fields) :
        BitAnd(fields[j].flags, PRI_KEY_FLAG) + BitAnd(fields[j].flags, UNIQUE_KEY_FLAG) # 0}}

\* no two rows share the value of a primary-key or unique-index column
\* (NULLs never collide)
ConstraintsHold(fields, tbl) ==
    \A r1 \in tbl, r2 \in tbl : \A c \in KeyColumns(fields) :
        (r1 # r2 /\ r1[c].t # "null") => r1[c] # r2[c]

\* SQL `column = value`: never true when either side is NULL
SqlEq(stored, bound) == stored.t # "null" /\ bound.t # "null" /\ stored = bound

RECURSIVE SetToSeq(_)
SetToSeq(S) ==
    IF S = {} THEN <<>>
    ELSE LET x == CHOOSE y \in S : TRUE IN <<x>> \o SetToSeq(S \ {x})

\* a row as the driver returns it: a plain object with the columns in order
RowObject(fields, r) == Obj([i \in 1..Len(fields) |-> Entry(fields[i].name, r[fields[i].name])])

Header(n) == [affectedRows |-> n]
DbOk(tbl, n) == [ok |-> TRUE, table |-> tbl, header |-> Header(n)]
DbError(code) == [ok |-> FALSE, error |-> [message |-> code, cause |-> [code |-> code]]]

StmtCols(stmt) == SeqToSet(stmt.cols)

\* the bind payload supplies every placeholder of the statement
BindsAll(stmt, bind) ==
    IF stmt.kind = "INSERT"
    THEN (Len(stmt.cols) = 0 /\ bind.t = "null")
         \/ (bind.t = "array" /\ Len(bind.v) = Len(stmt.cols))
    ELSE /\ bind.t = "object"
         /\ \A i \in 1..Len(stmt.where) : HasKey(bind, stmt.where[i].param)
         /\ \A c \in StmtCols(stmt) : HasKey(bind, c)

Matched(stmt, bind, tbl) ==
    {r \in tbl : \A i \in 1..Len(stmt.where) :
        SqlEq(r[stmt.where[i].col], Get(bind, stmt.where[i].param))}

\* conn.execute(string, bind) as the server runs it on the table
DbExecute(fields, stmt, bind, tbl) ==
    IF stmt.kind = "UPDATE" /\ Len(stmt.cols) = 0 THEN DbError("ER_PARSE_ERROR")
    ELSE IF stmt.kind \in {"UPDATE", "DELETE"} /\ Len(stmt.where) = 0 THEN DbError("ER_PARSE_ERROR")
    ELSE IF ~BindsAll(stmt, bind) THEN DbError("ER_WRONG_ARGUMENTS")
    ELSE IF stmt.kind = "INSERT" THEN
        LET index(c) == CHOOSE i \in 1..Len(stmt.cols) : stmt.cols[i] = c
            r == [c \in Columns |-> IF c \in StmtCols(stmt) THEN bind.v[index(c)] ELSE Null]
        IN IF r \in tbl \/ ~ConstraintsHold(fields, tbl \cup {r})
           THEN DbError("ER_DUP_ENTRY")
           ELSE DbOk(tbl \cup {r}, 1)
    ELSE IF stmt.kind = "UPDATE" THEN
        LET matched == Matched(stmt, bind, tbl)
            new(r) == [c \in Columns |-> IF c \in StmtCols(stmt) THEN Get(bind, c) ELSE r[c]]
            tbl2 == (tbl \ matched) \cup {new(r) : r \in matched}
        IN IF ~ConstraintsHold(fields, tbl2)
           THEN DbError("ER_DUP_ENTRY")
           ELSE DbOk(tbl2, Cardinality(matched))
    ELSE \* DELETE
        LET matched == Matched(stmt, bind, tbl)
        IN DbOk(tbl \ matched, Cardinality(matched))

-----------------------------------------------------------------------------
(* Statements built by the generic row engine *)

Statement(kind, cols, where) == [kind |-> kind, cols |-> cols, where |-> where]
Condition(col, param) == [col |-> col, param |-> param]

\* the query string of a statement, as the template literals assemble it
QueryStringOf(stmt) ==
    IF stmt.kind = "INSERT"
    THEN <<Text("INSERT INTO")>> \o [i \in 1..Len(stmt.cols) |-> Positional]
    ELSE IF stmt.kind = "UPDATE"
    THEN <<Text("UPDATE")>> \o [i \in 1..Len(stmt.cols) |-> Named(stmt.cols[i])]
         \o <<Text("WHERE")>> \o [i \in 1..Len(stmt.where) |-> Named(stmt.where[i].param)]
    ELSE IF stmt.kind = "DELETE"
    THEN <<Text("DELETE FROM WHERE")>> \o [i \in 1..Len(stmt.where) |-> Named(stmt.where[i].param)]
    ELSE <<Text("SELECT * FROM")>>

\* Object.assign(target, source): returns (and is) the mutated target
ObjectAssign(target, source) ==
    Obj(fromEntries(target.v \o source.v))

\* lodash mapKeys(t, (v, k) => `old${k}`)
mapKeysOld(t) == Obj([i \in 1..Len(t.v) |-> Entry("old" \o t.v[i].k, t.v[i].x)])

\* data(t) for the three shapes of transform:
\*   assign: i => Object.assign(i, patch)   (mutates and returns the row)
\*   spread: i => ({ ...i, ...patch })      (returns a copy)
\*   fresh:  i => patch                     (returns only the patch)
\* out is the value returned, t the row object after the call
ApplyTransform(tr, t) ==
    CASE tr.kind = "assign" -> [out |-> ObjectAssign(t, tr.patch), t |-> ObjectAssign(t, tr.patch)]
      [] tr.kind = "spread" -> [out |-> ObjectAssign(t, tr.patch), t |-> t]
      [] tr.kind = "fresh" -> [out |-> tr.patch, t |-> t]

\* fields.find(f => (f.flags & 2) !== 0)?.name
primaryKeyOf(fields) ==
    LET pks == SelectSeq(fields, LAMBDA f : BitAnd(f.flags, PRI_KEY_FLAG) # 0)
    IN IF Len(pks) > 0 THEN Str(pks[1].name) ELSE Undefined

editableColumnsOf(fields) ==
    LET kept == SelectSeq(fields, LAMBDA f :
                    BitAnd(f.flags, PRI_KEY_FLAG) + BitAnd(f.flags, UNIQUE_KEY_FLAG) = 0)
    IN {kept[i].name : i \in 1..Len(kept)}

\* the columns edit puts in the WHERE clause of the row's UPDATE
editWhereKeys(primaryKey, oldKeys) ==
    IF typeof(primaryKey) = "string" THEN <<primaryKey.v>> ELSE oldKeys

\* body of targets.map(t => ...) in edit, up to the call of query
editQuery(fields, t, tr) ==
    LET primaryKey == primaryKeyOf(fields)
        editableColumns == editableColumnsOf(fields)
        oldKeys == ObjectKeys(t)
        applied == ApplyTransform(tr, t)
        updatedData == applied.out
        newKeys == ObjectKeys(updatedData)
        editableKeys == SelectSeq(newKeys, LAMBDA k : k \in editableColumns)
        processedItem == Obj([i \in 1..Len(editableKeys) |->
                                Entry(editableKeys[i],
                                      processValue(Get(updatedData, editableKeys[i]), TRUE))])
        whereKeys == editWhereKeys(primaryKey, oldKeys)
        deleteConditions == [i \in 1..Len(whereKeys) |->
                                Condition(whereKeys[i], "old" \o whereKeys[i])]
        selector == mapKeysOld(applied.t)   \* t, after data(t) has run
        values == ObjectAssign(processedItem, selector)
    IN [stmt |-> Statement("UPDATE", editableKeys, deleteConditions),
        values |-> values, out |-> updatedData]

\* body of targets.map(t => ...) in del
delQuery(t) ==
    LET keys == ObjectKeys(t)
        deleteConditions == [i \in 1..Len(keys) |-> Condition(keys[i], keys[i])]
    IN [stmt |-> Statement("DELETE", <<>>, deleteConditions), values |-> t, out |-> t]

\* body of data.map(item => ...) in set
setQuery(item) ==
    LET keys == ObjectKeys(item)
        values == Arr([i \in 1..Len(item.v) |-> item.v[i].x])
    IN [stmt |-> Statement("INSERT", keys, <<>>), values |-> values, out |-> item]

-----------------------------------------------------------------------------
(* Inputs of Spec *)

NoFilter == [col |-> "", val |-> Undefined]
Filters == {NoFilter, [col |-> "id", val |-> Num(1)], [col |-> "id", val |-> Num(2)]}
\* filter(v), or true when no filter is given
Passes(filter, t) == filter.col = "" \/ Get(t, filter.col) = filter.val

Patches ==
    { Obj(<<>>),
      Obj(<<Entry("name", Str("m"))>>),
      Obj(<<Entry("email", Str("z"))>>),
      Obj(<<Entry("id", Num(2))>>) }
Transforms == {[kind |-> k, patch |-> p] : k \in {"assign", "spread", "fresh"}, p \in Patches}

InsertRows ==
    { Obj(<<Entry("id", Num(3)), Entry("email", Str("c")), Entry("name", Str("n"))>>),
      Obj(<<Entry("id", Num(1)), Entry("email", Str("d")), Entry("name", Null)>>),
      Obj(<<Entry("id", Num(4))>>) }
SetData == SeqsUpTo(InsertRows, MaxRows) \ {<<>>}

OtherValues == {Str("q")}

-----------------------------------------------------------------------------
(* Generic row engine *)

NoError == [message |-> "", cause |-> [code |-> ""]]

\* a query(string, values) invocation: it starts by awaiting pool.getConnection()
Task(q, snapshot) ==
    [pc |-> "acquiring", stmt |-> q.stmt, values |-> q.values, out |-> q.out,
     snapshot |-> snapshot,
     parsed |-> Returned(Undefined), response |-> Header(0 - 1), error |-> NoError]

Settled(ts) == \A i \in 1..Len(ts) : ts[i].pc \in {"fulfilled", "rejected"}

\* Promise.all collecting the headers in completion order instead of by index
PromiseAll_completionOrder(ts, order, prev) ==
    IF prev.state # "pending" THEN prev
    ELSE IF \E i \in 1..Len(order) : ts[order[i]].pc = "rejected"
    THEN LET first == CHOOSE i \in 1..Len(order) :
                        /\ ts[order[i]].pc = "rejected"
                        /\ \A j \in 1..(i - 1) : ts[order[j]].pc # "rejected"
         IN [state |-> "rejected", value |-> <<>>, error |-> ts[order[first]].error]
    ELSE IF \A i \in 1..Len(ts) : ts[i].pc = "fulfilled"
    THEN [state |-> "fulfilled", value |-> [i \in 1..Len(ts) |-> ts[order[i]].response],
          error |-> NoError]
    ELSE prev

\* await Promise.all(queries), then response.map(r => r[0]):
\* rejected with the first rejection, fulfilled with the headers by index
PromiseAll(ts, order, prev) ==
    IF prev.state # "pending" THEN prev
    ELSE IF \E i \in 1..Len(order) : ts[order[i]].pc = "rejected"
    THEN LET first == CHOOSE i \in 1..Len(order) :
                        /\ ts[order[i]].pc = "rejected"
                        /\ \A j \in 1..(i - 1) : ts[order[j]].pc # "rejected"
         IN [state |-> "rejected", value |-> <<>>, error |-> ts[order[first]].error]
    ELSE IF \A i \in 1..Len(ts) : ts[i].pc = "fulfilled"
    THEN [state |-> "fulfilled", value |-> [i \in 1..Len(ts) |-> ts[i].response],
          error |-> NoError]
    ELSE prev

Pending == [state |-> "pending", value |-> <<>>, error |-> NoError]

\* set(table, data): every item's query() is started before the join
StartSet(data) ==
    /\ call.op = "none"
    /\ call' = [op |-> "set", pc |-> "joining", tr |-> [kind |-> "", patch |-> Obj(<<>>)],
                filter |-> NoFilter]
    /\ tasks' = [i \in 1..Len(data) |-> Task(setQuery(data[i]), data[i])]
    /\ outcome' = PromiseAll(tasks', <<>>, Pending)
    /\ ghost' = [readTable |-> table, targets |-> data, order |-> <<>>, raced |-> {}]
    /\ UNCHANGED <<schema, table, nOther>>
    /\ UNCHANGED pvars
    /\ UNCHANGED qvars

\* edit(table, data, filter) and del(table, filter) start with get(table, [], filter),
\* whose query() awaits pool.getConnection()
StartEdit(tr, filter) ==
    /\ call.op = "none"
    /\ call' = [op |-> "edit", pc |-> "acquiring", tr |-> tr, filter |-> filter]
    /\ tasks' = <<>>
    /\ outcome' = Pending
    /\ ghost' = [readTable |-> {}, targets |-> <<>>, order |-> <<>>, raced |-> {}]
    /\ UNCHANGED <<schema, table, nOther>>
    /\ UNCHANGED pvars
    /\ UNCHANGED qvars

StartDel(filter) ==
    /\ call.op = "none"
    /\ call' = [op |-> "del", pc |-> "acquiring", tr |-> [kind |-> "", patch |-> Obj(<<>>)],
                filter |-> filter]
    /\ tasks' = <<>>
    /\ outcome' = Pending
    /\ ghost' = [readTable |-> {}, targets |-> <<>>, order |-> <<>>, raced |-> {}]
    /\ UNCHANGED <<schema, table, nOther>>
    /\ UNCHANGED pvars
    /\ UNCHANGED qvars

\* get's query(): the connection is granted, reconciliation of absent values
\* yields null, and the SELECT is handed to conn.execute
GetAcquire ==
    /\ call.pc = "acquiring"
    /\ ~parseQueryStringValues(QueryStringOf(Statement("SELECT", <<>>, <<>>)), Undefined, FALSE).threw
    /\ call' = [call EXCEPT !.pc = "executing"]
    /\ checkedOut' = checkedOut + 1
    /\ sent' = sent + 1
    /\ UNCHANGED <<releases, schema, table, tasks, outcome, nOther, ghost>>
    /\ UNCHANGED qvars

\* the SELECT resolves: query() releases, get() filters in memory, and
\* edit/del build and start one query() per target before the join
GetComplete ==
    /\ call.pc = "executing"
    /\ LET fields == schema
           results == [i \in 1..Cardinality(table) |-> RowObject(fields, SetToSeq(table)[i])]
           targets == SelectSeq(results, LAMBDA t : Passes(call.filter, t))
       IN /\ tasks' = [i \in 1..Len(targets) |->
                        Task(IF call.op = "edit" THEN editQuery(fields, targets[i], call.tr)
                             ELSE delQuery(targets[i]),
                             targets[i])]
          /\ outcome' = PromiseAll(tasks', <<>>, Pending)
          /\ ghost' = [readTable |-> table, targets |-> targets, order |-> <<>>, raced |-> {}]
    /\ ReleaseOnSuccess(TRUE)
    /\ call' = [call EXCEPT !.pc = "joining"]
    /\ UNCHANGED <<sent, schema, table, nOther>>
    /\ UNCHANGED qvars

\* task i is granted its connection: reconcile (line 99), then conn.execute
TaskAcquire(i) ==
    /\ tasks[i].pc = "acquiring"
    /\ checkedOut' = checkedOut + 1
    /\ LET parsedValues == parseQueryStringValues(QueryStringOf(tasks[i].stmt), tasks[i].values, FALSE)
       IN IF parsedValues.threw
          THEN /\ tasks' = [tasks EXCEPT ![i].pc = "rejected", ![i].parsed = parsedValues,
                                         ![i].error = parsedValues.error]
               /\ ghost' = [ghost EXCEPT !.order = Append(@, i)]
               /\ outcome' = PromiseAll(tasks', ghost'.order, outcome)
               /\ sent' = sent
          ELSE /\ tasks' = [tasks EXCEPT ![i].pc = "executing", ![i].parsed = parsedValues]
               /\ sent' = sent + 1
               /\ UNCHANGED <<ghost, outcome>>
    /\ UNCHANGED <<releases, schema, table, call, nOther>>
    /\ UNCHANGED qvars

\* task i's statement runs and conn.execute resolves: release, return
TaskResolve(i) ==
    /\ tasks[i].pc = "executing"
    /\ LET r == DbExecute(schema, tasks[i].stmt, tasks[i].parsed.value, table)
       IN /\ r.ok
          /\ table' = r.table
          /\ tasks' = [tasks EXCEPT ![i].pc = "fulfilled", ![i].response = r.header]
    /\ ReleaseOnSuccess(TRUE)
    /\ ghost' = [ghost EXCEPT !.order = Append(@, i)]
    /\ outcome' = PromiseAll(tasks', ghost'.order, outcome)
    /\ UNCHANGED <<sent, schema, call, nOther>>
    /\ UNCHANGED qvars

\* task i's statement is refused and conn.execute rejects
TaskReject(i) ==
    /\ tasks[i].pc = "executing"
    /\ LET r == DbExecute(schema, tasks[i].stmt, tasks[i].parsed.value, table)
       IN /\ ~r.ok
          /\ tasks' = [tasks EXCEPT ![i].pc = "rejected", ![i].error = r.error]
    /\ ReleaseOnFailure(TRUE)
    /\ ghost' = [ghost EXCEPT !.order = Append(@, i)]
    /\ outcome' = PromiseAll(tasks', ghost'.order, outcome)
    /\ UNCHANGED <<sent, schema, table, call, nOther>>
    /\ UNCHANGED qvars

\* tasks whose target is row r and whose statement has not run yet
Racing(r) ==
    {i \in 1..Len(tasks) :
        /\ call.op \in {"edit", "del"}
        /\ tasks[i].pc \in {"acquiring", "executing"}
        /\ tasks[i].snapshot = RowObject(schema, r)}

\* the rows have been read and some statement of the call has not run yet
BetweenReadAndWrite == call.op \in {"edit", "del"} /\ call.pc = "joining" /\ ~Settled(tasks)

\* another caller deletes a row
OtherDelete(r) ==
    /\ BetweenReadAndWrite
    /\ nOther < MaxOther
    /\ r \in table
    /\ nOther' = nOther + 1
    /\ table' = table \ {r}
    /\ ghost' = [ghost EXCEPT !.raced = @ \cup Racing(r)]
    /\ UNCHANGED <<schema, call, tasks, outcome>>
    /\ UNCHANGED pvars
    /\ UNCHANGED qvars

\* another caller changes the name of a row
OtherUpdate(r, v) ==
    /\ BetweenReadAndWrite
    /\ nOther < MaxOther
    /\ r \in table
    /\ r.name # v
    /\ nOther' = nOther + 1
    /\ table' = (table \ {r}) \cup {[r EXCEPT !.name = v]}
    /\ UNCHANGED <<schema, call, tasks, outcome, ghost>>
    /\ UNCHANGED pvars
    /\ UNCHANGED qvars

QueryIdle ==
    /\ qString = <<Text("SELECT")>>
    /\ qValues = Undefined
    /\ qMode = "query"
    /\ qpc = "returned"
    /\ qResult = Returned(Undefined)
    /\ qCalls = 0
    /\ qSent0 = 0

Init ==
    /\ schema \in Schemas
    /\ table \in InitialTables
    /\ call = [op |-> "none", pc |-> "done", tr |-> [kind |-> "", patch |-> Obj(<<>>)],
               filter |-> [col |-> "", val |-> Undefined]]
    /\ tasks = <<>>
    /\ outcome = [state |-> "none"]
    /\ nOther = 0
    /\ ghost = [readTable |-> {}, targets |-> <<>>, order |-> <<>>, raced |-> {}]
    /\ checkedOut = 0
    /\ releases = 0
    /\ sent = 0
    /\ QueryIdle

Next ==
    \/ \E data \in SetData : StartSet(data)
    \/ \E tr \in Transforms, filter \in Filters : StartEdit(tr, filter)
    \/ \E filter \in Filters : StartDel(filter)
    \/ GetAcquire
    \/ GetComplete
    \/ \E i \in 1..Len(tasks) : TaskAcquire(i)
    \/ \E i \in 1..Len(tasks) : TaskResolve(i)
    \/ \E i \in 1..Len(tasks) : TaskReject(i)
    \/ \E r \in table : OtherDelete(r)
    \/ \E r \in table, v \in OtherValues : OtherUpdate(r, v)

Spec == Init /\ [][Next]_vars

-----------------------------------------------------------------------------
(* Properties of the statement executor and the reconciler (SpecQuery) *)

\* the call has passed reconciliation, and qResult holds what it produced
Reconciled ==
    /\ qpc \notin {"start", "acquiring"}
    /\ qResult.threw => qResult.error.message # ExecutionError.message

ValuesPresent == qValues.t \notin {"null", "undefined"}

NamesOf(queryString) ==
    {namedPlaceholdersOf(queryString)[i].s : i \in 1..Len(namedPlaceholdersOf(queryString))}

\* C1: when a query call has ended, in success or in failure, the connection
\* it acquired from the pool has been released: none is still checked out.
C1_NoConnectionCheckedOut ==
    qpc \in {"returned", "threw"} => checkedOut = 0

\* the payload has the shape of the placeholders detected in the query
ShapeMatches(queryString, payload) ==
    LET n == Len(identifyQuery(queryString))
        names == NamesOf(queryString)
    IN \/ n > 0 /\ payload.t = "array" /\ Len(payload.v) = n
       \/ names # {} /\ payload.t = "object" /\ SeqToSet(ObjectKeys(payload)) = names
       \/ n = 0 /\ names = {} /\ payload.t = "null"

\* C4: for a present values payload, parseQueryStringValues returns a bind
\* payload whose shape matches the placeholders of the query, or it fails.
C4_PayloadShapeMatches ==
    (Reconciled /\ ValuesPresent /\ ~qResult.threw) => ShapeMatches(qString, qResult.value)

\* C5: with exactly one positional placeholder and present values, the result
\* is a single-element sequence: the normalized first element of a sequence,
\* the JSON/text of any other non-scalar, or the scalar itself.
C5_SinglePlaceholderIsWrapped ==
    (Reconciled /\ ValuesPresent /\ Len(identifyQuery(qString)) = 1) =>
        /\ ~qResult.threw
        /\ qResult.value =
             Arr(<<IF IsArray(qValues) THEN processValue(At(qValues, 0), TRUE)
                   ELSE IF typeof(qValues) \notin bypassableTypes THEN processValue(qValues, TRUE)
                   ELSE qValues>>)

\* a keyed values payload lacks the key of some named placeholder of the query
MissingKey ==
    /\ isPlainObject(qValues)
    /\ \E name \in NamesOf(qString) : ~HasKey(qValues, name)

IsMissingParameterError(r) ==
    /\ r.threw
    /\ r.error.message # ExecutionError.message
    /\ r.error.cause.query_string = qString
    /\ r.error.cause.placeholders = identifyQuery(qString)
    /\ r.error.cause.named_placeholders = namedPlaceholdersOf(qString)
    /\ r.error.cause.values = qValues

\* null for the missing parameters, the normalized value for the present ones
ForcedBinding(r) ==
    /\ ~r.threw
    /\ r.value.t = "object"
    /\ SeqToSet(ObjectKeys(r.value)) = NamesOf(qString)
    /\ \A name \in NamesOf(qString) :
          Get(r.value, name) = IF HasKey(qValues, name)
                               THEN processValue(Get(qValues, name), TRUE)
                               ELSE Null

MissingKeyOutcome ==
    IF qMode = "parseForce"
    THEN ForcedBinding(qResult)
    ELSE IsMissingParameterError(qResult) /\ qpc = "threw" /\ sent = qSent0

\* C6 as stated: whenever a keyed payload lacks a named placeholder's key,
\* force off fails with the missing-parameter error and sends no statement,
\* force on binds null for the missing and the normalized value for the rest.
C6_MissingParameter ==
    (Reconciled /\ MissingKey) => MissingKeyOutcome

\* C6 amended: the same, for queries that do not hold exactly one positional
\* placeholder (rule (a) of the decision order wins over the named rule).
C6_MissingParameterNamedRule ==
    (Reconciled /\ MissingKey /\ Len(identifyQuery(qString)) # 1) => MissingKeyOutcome

\* query() met a missing named parameter: it threw and sent nothing
C6_Witness ==
    /\ MissingKey
    /\ Len(identifyQuery(qString)) # 1
    /\ qMode = "query"
    /\ qpc = "threw"
    /\ IsMissingParameterError(qResult)
    /\ \E name \in NamesOf(qString) : HasKey(qValues, name)

-----------------------------------------------------------------------------
(* Properties of the generic row engine (Spec) *)

IsWrite(i) == tasks[i].stmt.kind \in {"UPDATE", "DELETE"}
WhereColumns(i) == {tasks[i].stmt.where[j].col : j \in 1..Len(tasks[i].stmt.where)}

\* C2: the values edit binds to the WHERE clause's old<column> placeholders
\* are the values the row had when it was read, whatever the transform does.
C2_WhereBindsReadValues ==
    \A i \in 1..Len(tasks) : tasks[i].stmt.kind = "UPDATE" =>
        \A j \in 1..Len(tasks[i].stmt.where) :
            Get(tasks[i].values, tasks[i].stmt.where[j].param)
                = Get(tasks[i].snapshot, tasks[i].stmt.where[j].col)

\* primary key, else the unique-index columns, else every column of the row
IdentityKeySet(fields, t) ==
    LET pk == {fields[i].name : i \in {j \in 1..Len(fields) : fields[j].flags \in {2, 3, 6, 7}}}
        unique == {fields[i].name : i \in {j \in 1..Len(fields) : fields[j].flags \in {4, 5, 6, 7}}}
    IN IF pk # {} THEN pk ELSE IF unique # {} THEN unique ELSE SeqToSet(ObjectKeys(t))

\* C3: the WHERE clause of every per-row statement of edit and del is on the
\* Identity Key Set: primary key, else unique-index columns, else all columns.
C3_WhereIsIdentityKeySet ==
    \A i \in 1..Len(tasks) : IsWrite(i) =>
        WhereColumns(i) = IdentityKeySet(schema, tasks[i].snapshot)

\* C7: a target row deleted by another caller after the read and before its
\* statement runs gives zero affected rows for that row, and no error.
C7_LostRaceAffectsNothing ==
    \A i \in ghost.raced :
        /\ tasks[i].pc # "rejected"
        /\ tasks[i].pc = "fulfilled" => tasks[i].response.affectedRows = 0

FirstRejected ==
    CHOOSE i \in 1..Len(ghost.order) :
        /\ tasks[ghost.order[i]].pc = "rejected"
        /\ \A j \in 1..(i - 1) : tasks[ghost.order[j]].pc # "rejected"

\* the row the INSERT of task i stores: its bound values, NULL elsewhere
InsertedRow(i) ==
    LET cols == tasks[i].stmt.cols
        bound(c) == tasks[i].parsed.value.v[CHOOSE j \in 1..Len(cols) : cols[j] = c]
    IN [c \in Columns |-> IF c \in SeqToSet(cols) THEN bound(c) ELSE Null]

\* C8: the per-row statements of one call are all started before the join;
\* a failing statement fails the call with the first failure; statements
\* that succeeded keep their effect; with no failure the call returns one
\* header per row, in input order whatever the completion order.
C8_BatchJoin ==
    /\ call.pc = "joining" =>
          /\ Len(tasks) = Len(ghost.targets)
          /\ \A i \in 1..Len(tasks) : tasks[i].snapshot = ghost.targets[i]
    /\ outcome.state = "fulfilled" =>
          /\ Len(outcome.value) = Len(ghost.targets)
          /\ \A i \in 1..Len(tasks) :
                tasks[i].pc = "fulfilled" /\ outcome.value[i] = tasks[i].response
    /\ (\E i \in 1..Len(tasks) : tasks[i].pc = "rejected") =>
          /\ outcome.state = "rejected"
          /\ outcome.error = tasks[ghost.order[FirstRejected]].error
    /\ (call.op = "set" /\ nOther = 0) =>
          \A i \in 1..Len(tasks) :
              tasks[i].pc = "fulfilled" => InsertedRow(i) \in table

\* the second statement failed first, the first one succeeded afterwards and
\* its row stays in the table of the failed call
C8_Witness ==
    /\ call.op = "set"
    /\ nOther = 0
    /\ ghost.order = <<2, 1>>
    /\ tasks[2].pc = "rejected"
    /\ tasks[1].pc = "fulfilled"
    /\ outcome.state = "rejected"
    /\ InsertedRow(1) \in table

\* C9: a transform output that lacks editable columns never makes edit fail:
\* the UPDATE issued for the row is a valid statement and is not refused.
C9_MissingColumnsNeverFail ==
    \A i \in 1..Len(tasks) :
        (/\ tasks[i].stmt.kind = "UPDATE"
         /\ \E c \in editableColumnsOf(schema) : ~HasKey(tasks[i].out, c)) =>
            /\ Len(tasks[i].stmt.cols) > 0
            /\ tasks[i].pc # "rejected"

\* the transform leaves column c of row r as it was
LeftUnchanged(tr, r, c) ==
    LET out == ApplyTransform(tr, RowObject(schema, r)).out
    IN ~HasKey(out, c) \/ Get(out, c) = r[c]

\* C10: with no concurrent mutation, after edit every column a target row's
\* transform left unchanged holds its old value (NULL stays NULL), and rows
\* the predicate does not match are unchanged.
C10_EditFrame ==
    (call.op = "edit" /\ outcome.state = "fulfilled" /\ nOther = 0) =>
        \A r \in ghost.readTable :
            IF Passes(call.filter, RowObject(schema, r))
            THEN \E r2 \in table :
                    \A c \in Columns : LeftUnchanged(call.tr, r, c) => r2[c] = r[c]
            ELSE r \in table

====
